---------------------------- MODULE Spec2Model ----------------------------
(***************************************************************************)
(* SafeRoad AI (src/app.py): a Streamlit page that extracts road-safety    *)
(* issue keywords from a text or a PDF, looks the issues up in a reference *)
(* table of interventions and asks an external model for a summary.        *)
(*                                                                         *)
(* Text is modelled character by character: a Python str is a sequence of  *)
(* one-character atoms.  The atom "long_s" stands for U+017F (LATIN SMALL  *)
(* LETTER LONG S), which re.IGNORECASE treats as a case variant of "s"     *)
(* while str.lower() leaves it alone.  A fixed literal of the source that  *)
(* is never searched or sliced (a label, the body of the prompt template)  *)
(* is a single atom.                                                       *)
(***************************************************************************)
EXTENDS Integers, Sequences, FiniteSets, TLC

VARIABLES
    pc,            \* "app": the page; "input"/"returned": a direct call of one function
    API_KEY,       \* TRUE iff a Google API key is configured (lines 12-15)
    csv_found,     \* TRUE iff data/irc_interventions.csv exists (line 92)
    df,            \* the reference table: a sequence of rows
    option,        \* the radio's value (line 100)
    user_input,    \* the text area's value (line 106)
    uploaded_pdf,  \* the file uploader's value (line 134)
    clicked,       \* the widget whose interaction triggered the last script run
    buttons,       \* the buttons the last script run rendered
    screen,        \* what the last script run displayed, in order
    pdf_text,      \* pdf_text of the last run (line 145)
    issues,        \* issues of the last run (lines 110, 148)
    matched_rows,  \* matched_rows of the last run (lines 111, 149)
    prompts,       \* the prompts the last run sent to model.generate_content
    response,      \* what model.generate_content did in the last run (line 72)
    ai_summary     \* ai_summary of the last run (lines 120, 158)

vars == <<pc, API_KEY, csv_found, df, option, user_input, uploaded_pdf, clicked,
          buttons, screen, pdf_text, issues, matched_rows, prompts, response, ai_summary>>

(***************************************************************************)
(* Bounds of the model.                                                    *)
(***************************************************************************)
MaxPieces == 3      \* a text is at most this many fragments
MaxIssues == 2      \* an issue list given directly to the matcher
MaxRows == 2        \* rows of a reference table
MaxPages == 3       \* pages of a PDF

(***************************************************************************)
(* Python str operations.                                                  *)
(***************************************************************************)
Range(s) == {s[i] : i \in 1..Len(s)}

Min(S) == CHOOSE x \in S : \A y \in S : x <= y

Max(S) == CHOOSE x \in S : \A y \in S : x >= y

\* str.isspace() of one character
Whitespace == {" ", "\n", "\t"}

\* the upper-case letters and their str.lower()
UpperToLower ==
    [c \in {"A","B","C","D","E","F","G","H","I","J","K","L","M",
            "N","O","P","Q","R","S","T","U","V","W","X","Y","Z"} |->
       CASE c = "A" -> "a" [] c = "B" -> "b" [] c = "C" -> "c" [] c = "D" -> "d"
         [] c = "E" -> "e" [] c = "F" -> "f" [] c = "G" -> "g" [] c = "H" -> "h"
         [] c = "I" -> "i" [] c = "J" -> "j" [] c = "K" -> "k" [] c = "L" -> "l"
         [] c = "M" -> "m" [] c = "N" -> "n" [] c = "O" -> "o" [] c = "P" -> "p"
         [] c = "Q" -> "q" [] c = "R" -> "r" [] c = "S" -> "s" [] c = "T" -> "t"
         [] c = "U" -> "u" [] c = "V" -> "v" [] c = "W" -> "w" [] c = "X" -> "x"
         [] c = "Y" -> "y" [] c = "Z" -> "z"]

\* str.lower(): U+017F is already lower case and stays
LowerChar(c) == IF c \in DOMAIN UpperToLower THEN UpperToLower[c] ELSE c

Lower(s) == [i \in 1..Len(s) |-> LowerChar(s[i])]

\* str.strip()
Strip(s) ==
    LET keep == {i \in 1..Len(s) : s[i] \notin Whitespace}
    IN  IF keep = {} THEN <<>> ELSE SubSeq(s, Min(keep), Max(keep))

\* s[:n]
Prefix(s, n) == SubSeq(s, 1, IF Len(s) < n THEN Len(s) ELSE n)

\* sub in s
Contains(s, sub) ==
    \E i \in 0..(Len(s) - Len(sub)) : \A j \in 1..Len(sub) : s[i + j] = sub[j]

\* str.split(sep) for a one-character sep: the pieces between the separators
Split(s, sep) ==
    LET cuts == {i \in 1..Len(s) : s[i] = sep}
        edge == <<0>> \o [k \in 1..Cardinality(cuts) |->
                    CHOOSE i \in cuts : Cardinality({j \in cuts : j < i}) = k - 1]
                 \o <<Len(s) + 1>>
    IN  [k \in 1..(Cardinality(cuts) + 1) |-> SubSeq(s, edge[k] + 1, edge[k + 1] - 1)]

\* the orders in which a list made from a set may enumerate it
ListsOf(S) == {l \in [1..Cardinality(S) -> S] : Range(l) = S}

(***************************************************************************)
(* 3. Issue extraction (lines 45-47).                                      *)
(***************************************************************************)
\* the alternatives of the regular expression, in the order it tries them
patternTypo ==
    << <<"p","o","t","h","o","l","e">>, <<"c","r","a","c","k">>, <<"s","i","g","n">>,
       <<"m","a","r","k","i","n","g">>, <<"l","i","g","h","t","i","n","g">>,
       <<"b","a","r","r","i","e","r">>, <<"s","h","o","u","l","d","e","r">>,
       <<"a","c","c","i","d","e","n","t">>, <<"f","l","o","o","d">>,
       <<"r","a","i","n">>, <<"s","c","h","o","o","l">>, <<"c","u","r","v","e">>,
       <<"v","i","s","i","b","i","l","i","t","y">>,
       <<"i","n","t","e","r","s","e","c","t","i","o","n">> >>

pattern ==
    << <<"p","o","t","h","o","l","e">>, <<"c","r","a","c","k">>, <<"s","i","g","n">>,
       <<"m","a","r","k","i","n","g">>, <<"l","i","g","h","t","i","n","g">>,
       <<"b","a","r","r","i","e","r">>, <<"s","h","o","u","l","d","e","r">>,
       <<"a","c","c","i","d","e","n","t">>, <<"f","l","o","o","d">>,
       <<"d","r","a","i","n">>, <<"s","c","h","o","o","l">>, <<"c","u","r","v","e">>,
       <<"v","i","s","i","b","i","l","i","t","y">>,
       <<"i","n","t","e","r","s","e","c","t","i","o","n">> >>

\* the (?i) flag: the simple case folding re.IGNORECASE compares characters by
FoldChar(c) == IF c = "long_s" THEN "s" ELSE LowerChar(c)

Fold(s) == [i \in 1..Len(s) |-> FoldChar(s[i])]

\* the alternative `word` matches at position i of text
MatchAt(word, text, i) ==
    /\ i + Len(word) - 1 <= Len(text)
    /\ \A j \in 1..Len(word) : FoldChar(text[i + j - 1]) = word[j]

\* the positions at which some alternative matches
MatchStarts(text) ==
    {i \in 1..Len(text) : \E k \in 1..Len(pattern) : MatchAt(pattern[k], text, i)}

\* the first alternative, in pattern order, that matches at i
FirstAlternative(text, i) ==
    pattern[Min({k \in 1..Len(pattern) : MatchAt(pattern[k], text, i)})]

\* re.findall with one group: the matched substrings as written in the text,
\* leftmost first, each search resuming where the previous match ended
RECURSIVE FindAllFrom(_, _, _)
FindAllFrom(text, starts, pos) ==
    LET ahead == {i \in starts : i >= pos}
    IN  IF ahead = {} THEN <<>>
        ELSE LET i == Min(ahead)
                 n == Len(FirstAlternative(text, i))
             IN  <<SubSeq(text, i, i + n - 1)>> \o FindAllFrom(text, starts, i + n)

FindAll(text) == FindAllFrom(text, MatchStarts(text), 1)

\* set(re.findall(pattern, text)); list(...) enumerates it in some order
extract_road_issues(text) == Range(FindAll(text))

(***************************************************************************)
(* 2. PDF text extraction (lines 35-40).  A PDF is the sequence of the     *)
(* texts PdfReader's pages yield; a page without extractable text yields   *)
(* the empty str.                                                          *)
(***************************************************************************)
RECURSIVE PagesTextNoNewline(_)
PagesTextNoNewline(pages) ==
    IF pages = <<>> THEN <<>>
    ELSE PagesTextNoNewline(SubSeq(pages, 1, Len(pages) - 1)) \o pages[Len(pages)]

\* the loop of lines 38-39: text += page.extract_text() + "\n"
RECURSIVE PagesText(_)
PagesText(pages) ==
    IF pages = <<>> THEN <<>>
    ELSE PagesText(SubSeq(pages, 1, Len(pages) - 1)) \o pages[Len(pages)] \o <<"\n">>

extract_text_from_pdf(pages) == Strip(PagesText(pages))

(***************************************************************************)
(* 4. Matching interventions (lines 52-58).  A row of the table is a       *)
(* record of its cells; the keywords cell is a str or, when the CSV cell   *)
(* is empty, NaN (a float, not a str).                                     *)
(***************************************************************************)
Str(s) == [str |-> TRUE, s |-> s]

NaN == [str |-> FALSE, s |-> <<>>]

\* the isinstance test and the any(...) of line 56, for one issue and one row
RowMatchesReversed(issue, row) ==
    /\ row.keywords.str
    /\ \E k \in Range(Split(row.keywords.s, ",")) :
          Contains(Lower(Strip(k)), Lower(issue))

RowMatchesNoLower(issue, row) ==
    /\ row.keywords.str
    /\ \E k \in Range(Split(row.keywords.s, ",")) :
          Contains(Lower(issue), Strip(k))

RowMatches(issue, row) ==
    /\ row.keywords.str
    /\ \E k \in Range(Split(row.keywords.s, ",")) :
          Contains(Lower(issue), Lower(Strip(k)))

\* the list `matches` after the two loops: issue by issue, row by row
Matches(issueList, table) ==
    LET n == Len(table)
        pairs == [k \in 1..(Len(issueList) * n) |-> k]
        IssueOf(k) == issueList[((k - 1) \div n) + 1]
        RowOf(k) == table[((k - 1) % n) + 1]
        hits == SelectSeq(pairs, LAMBDA k : RowMatches(IssueOf(k), RowOf(k)))
    IN  [j \in 1..Len(hits) |-> RowOf(hits[j])]

\* DataFrame.drop_duplicates(): the first occurrence of every row, in order
DropDuplicates(rows) ==
    LET first == SelectSeq([i \in 1..Len(rows) |-> i],
                           LAMBDA i : \A j \in 1..(i - 1) : rows[j] # rows[i])
    IN  [j \in 1..Len(first) |-> rows[first[j]]]

find_matching_interventions_keep_all(issueList, table) == Matches(issueList, table)

find_matching_interventions(issueList, table) ==
    DropDuplicates(Matches(issueList, table))

(***************************************************************************)
(* 5. AI summary (lines 63-75).  The external call either returns a text   *)
(* or raises; `reply` is what it does.                                     *)
(***************************************************************************)
SummaryLimit == 1500

\* the literal text of the f-string of lines 66-71 before {short_text}
PromptHead ==
    "Summarize the following road safety report in 5 bullet points. Focus on detected issues, suggested improvements, and key safety actions. Text:"

\* the literal text of the f-string of line 75 before {e}
FailurePrefix == "AI summary generation failed: "

\* the f-string of lines 66-71
Prompt(short_text) == <<PromptHead>> \o short_text \o <<"\n">>

\* textwrap.fill(s, width=100) of a text shorter than one line and without
\* tabs: every whitespace character becomes a space
TextwrapFill(s) == [i \in 1..Len(s) |-> IF s[i] \in Whitespace THEN " " ELSE s[i]]

\* the result: the prompt sent, whether a fault left the function, the value returned
generate_ai_summary_whole_text(text, reply) ==
    [prompt |-> Prompt(text),
     raised |-> FALSE,
     value  |-> IF reply.kind = "text" THEN TextwrapFill(Strip(reply.text))
                ELSE <<FailurePrefix>> \o reply.text]

generate_ai_summary_uncaught(text, reply) ==
    [prompt |-> Prompt(Prefix(text, SummaryLimit)),
     raised |-> reply.kind = "raise",
     value  |-> IF reply.kind = "text" THEN TextwrapFill(Strip(reply.text))
                ELSE <<>>]

generate_ai_summary(text, reply) ==
    [prompt |-> Prompt(Prefix(text, SummaryLimit)),
     raised |-> FALSE,
     value  |-> IF reply.kind = "text" THEN TextwrapFill(Strip(reply.text))
                ELSE <<FailurePrefix>> \o reply.text]

(***************************************************************************)
(* The values the inputs are drawn from.                                   *)
(***************************************************************************)
pothole == <<"p","o","t","h","o","l","e">>
Pothole == <<"P","o","t","h","o","l","e">>
school  == <<"s","c","h","o","o","l">>
drain   == <<"d","r","a","i","n">>
flood   == <<"f","l","o","o","d">>
sign    == <<"s","i","g","n">>

\* the pieces the texts given to extract_road_issues are made of
Fragments ==
    {pothole, Pothole, flood, drain, <<"r","a","i","n">>, <<"S","i","g","n">>,
     <<"long_s","i","g","n">>, <<" ">>, <<"x">>}

RECURSIVE Concatenations(_, _)
Concatenations(pieces, n) ==
    IF n = 0 THEN {<<>>}
    ELSE LET shorter == Concatenations(pieces, n - 1)
         IN  shorter \cup {t \o f : t \in shorter, f \in pieces}

Texts == Concatenations(Fragments, MaxPieces)

\* the sequences of at most n elements of S
RECURSIVE SeqsUpTo(_, _)
SeqsUpTo(S, n) ==
    IF n = 0 THEN {<<>>}
    ELSE LET shorter == SeqsUpTo(S, n - 1)
         IN  shorter \cup {Append(t, x) : t \in shorter, x \in S}

PotholeRepair == [keywords |-> Str(pothole \o <<",", " ">> \o <<"c","r","a","c","k">>),
                  name |-> "Pothole Repair"]
SchoolZone    == [keywords |-> Str(<<"S">> \o Tail(school) \o <<",">> \o drain \o <<"a","g","e">>),
                  name |-> "School Zone Signage"]
Untagged      == [keywords |-> NaN, name |-> "Untagged"]
SignBoard     == [keywords |-> Str(sign \o <<",">>), name |-> "Sign Board"]

RowPool == {PotholeRepair, SchoolZone, Untagged, SignBoard}

Tables == SeqsUpTo(RowPool, MaxRows)

IssueLists == SeqsUpTo({pothole, Pothole, school, drain}, MaxIssues)

PagePool ==
    {<<>>, Pothole, <<" ">> \o sign \o <<"\n">>, <<"\n">>, flood \o <<" ">>}

Pdfs == SeqsUpTo(PagePool, MaxPages)

NoFile == [present |-> FALSE, pages |-> <<>>]

File(pages) == [present |-> TRUE, pages |-> pages]

NoReply == [kind |-> "none", text |-> <<>>]

(***************************************************************************)
(* Direct calls of the three pure functions: the input is drawn by Init,   *)
(* the one action calls the function.                                      *)
(***************************************************************************)
Idle ==
    /\ API_KEY = TRUE /\ csv_found = TRUE /\ option = "manual" /\ clicked = "none"
    /\ buttons = {} /\ screen = <<>> /\ prompts = <<>> /\ response = NoReply
    /\ ai_summary = <<>>

IdleUnchanged ==
    UNCHANGED <<API_KEY, csv_found, option, clicked, buttons, screen, prompts, response,
                ai_summary>>

InitExtract ==
    /\ pc = "input" /\ Idle
    /\ user_input \in Texts
    /\ df = <<>> /\ uploaded_pdf = NoFile /\ pdf_text = <<>>
    /\ issues = <<>> /\ matched_rows = <<>>

CallExtract ==
    /\ pc = "input" /\ pc' = "returned"
    /\ issues' \in ListsOf(extract_road_issues(user_input))
    /\ IdleUnchanged
    /\ UNCHANGED <<user_input, df, uploaded_pdf, pdf_text, matched_rows>>

SpecExtract == InitExtract /\ [][CallExtract]_vars

InitMatch ==
    /\ pc = "input" /\ Idle
    /\ issues \in IssueLists
    /\ df \in Tables
    /\ user_input = <<>> /\ uploaded_pdf = NoFile /\ pdf_text = <<>>
    /\ matched_rows = <<>>

CallMatch ==
    /\ pc = "input" /\ pc' = "returned"
    /\ matched_rows' = find_matching_interventions(issues, df)
    /\ IdleUnchanged
    /\ UNCHANGED <<user_input, df, uploaded_pdf, pdf_text, issues>>

SpecMatch == InitMatch /\ [][CallMatch]_vars

InitPdf ==
    /\ pc = "input" /\ Idle
    /\ uploaded_pdf \in {File(p) : p \in Pdfs}
    /\ user_input = <<>> /\ df = <<>> /\ pdf_text = <<>>
    /\ issues = <<>> /\ matched_rows = <<>>

CallExtractText ==
    /\ pc = "input" /\ pc' = "returned"
    /\ pdf_text' = extract_text_from_pdf(uploaded_pdf.pages)
    /\ IdleUnchanged
    /\ UNCHANGED <<user_input, df, uploaded_pdf, issues, matched_rows>>

SpecPdf == InitPdf /\ [][CallExtractText]_vars

(***************************************************************************)
(* Properties of extract_road_issues.                                      *)
(***************************************************************************)
\* the keyword vocabulary of the data model
Vocabulary ==
    {pothole, <<"c","r","a","c","k">>, sign, <<"m","a","r","k","i","n","g">>,
     <<"l","i","g","h","t","i","n","g">>, <<"b","a","r","r","i","e","r">>,
     <<"s","h","o","u","l","d","e","r">>, <<"a","c","c","i","d","e","n","t">>,
     flood, drain, school, <<"c","u","r","v","e">>,
     <<"v","i","s","i","b","i","l","i","t","y">>,
     <<"i","n","t","e","r","s","e","c","t","i","o","n">>}

C9_CaseInsensitiveDistinct ==
    pc = "returned" =>
        \A i, j \in 1..Len(issues) : i # j => Fold(issues[i]) # Fold(issues[j])

(***************************************************************************)
(* Properties of find_matching_interventions.                              *)
(***************************************************************************)
\* the tokens of a keywords cell as the claims describe them: separated by
\* commas, trimmed, lower-cased
Tokens(cell) == {Lower(Strip(k)) : k \in Range(Split(cell.s, ","))}

TokenMatchesSomeIssue(row, issueList) ==
    /\ row.keywords.str
    /\ \E t \in Tokens(row.keywords), i \in 1..Len(issueList) :
          Contains(Lower(issueList[i]), t)

\* C1: every row of the output is a row of the table and has a textual
\* keywords field with a token that is a substring of the lower-cased text of
\* some issue of the input list.
C1_Soundness ==
    pc = "returned" =>
        \A r \in Range(matched_rows) :
            r \in Range(df) /\ TokenMatchesSomeIssue(r, issues)

\* some rows of the table are returned and some are left out
C1_Witness ==
    /\ pc = "returned"
    /\ matched_rows # <<>>
    /\ \E r \in Range(df) : r \notin Range(matched_rows)

\* C2: every row of the table whose keywords field is text and has a token
\* matching some issue of the list is in the output.
C2_Completeness ==
    pc = "returned" =>
        \A r \in Range(df) :
            TokenMatchesSomeIssue(r, issues) => r \in Range(matched_rows)

\* the row with keywords "pothole, crack" is returned for the issues {"pothole"}
C2_Witness ==
    /\ pc = "returned"
    /\ issues = <<pothole>>
    /\ PotholeRepair \in Range(df)
    /\ PotholeRepair \in Range(matched_rows)

\* C3: no row appears twice in the output.
C3_NoRowTwice ==
    pc = "returned" =>
        \A i, j \in 1..Len(matched_rows) :
            i # j => matched_rows[i] # matched_rows[j]

\* a row matched by two issues, or standing twice in the table, is returned once
C3_Witness ==
    /\ pc = "returned"
    /\ matched_rows # <<>>
    /\ Len(Matches(issues, df)) > Len(matched_rows)

(***************************************************************************)
(* Property of extract_text_from_pdf.                                      *)
(***************************************************************************)
\* the page texts with a newline between consecutive pages
RECURSIVE JoinPages(_)
JoinPages(pages) ==
    IF pages = <<>> THEN <<>>
    ELSE IF Len(pages) = 1 THEN pages[1]
    ELSE pages[1] \o <<"\n">> \o JoinPages(Tail(pages))

\* C10: extract_text_from_pdf returns the stripped concatenation of the page
\* texts in page order with a newline between consecutive pages, a page
\* without text contributing the empty string.
C10_StrippedJoin ==
    pc = "returned" => pdf_text = Strip(JoinPages(uploaded_pdf.pages))

\* a PDF of several pages, one of them without text, that yields some text
C10_Witness ==
    /\ pc = "returned"
    /\ Len(uploaded_pdf.pages) >= 2
    /\ \E i \in 1..Len(uploaded_pdf.pages) : uploaded_pdf.pages[i] = <<>>
    /\ pdf_text # <<>>

(***************************************************************************)
(* 6-8. The page (lines 12-19, 80-164).  Streamlit runs the whole script   *)
(* once per interaction; st.button returns True only in the run its own    *)
(* click triggered; a widget keeps its value only while it is rendered.    *)
(* One run yields what it displayed and computed.                          *)
(***************************************************************************)
PreviewLimit == 1500

El(w, label, value) == [w |-> w, label |-> label, value |-> value]

RunResult(shown, btns, ptext, iss, rows, sent, rep, summary) ==
    [screen |-> shown, buttons |-> btns, pdf_text |-> ptext, issues |-> iss,
     matched_rows |-> rows, prompts |-> sent, response |-> rep, ai_summary |-> summary]

\* what model.generate_content may do: return a text, or raise
Replies ==
    {[kind |-> "text", text |-> <<" ", "F", "i", "x", "\n", "i", "t", ".", "\n">>],
     [kind |-> "raise", text |-> <<"4","2","9"," ","q","u","o","t","a">>]}

\* lines 117-124 and 155-162: the summary button and what follows it.  A fault
\* leaving generate_ai_summary would end the run with Streamlit's exception box.
SummarySection(text, generate) ==
    IF generate
    THEN {LET r == generate_ai_summary(text, rep)
          IN  IF r.raised
              THEN [screen |-> <<El("exception", "", rep.text)>>,
                    prompts |-> <<r.prompt>>, response |-> rep, ai_summary |-> <<>>]
              ELSE [screen |-> <<El("success", "AI Summary Generated Successfully", <<>>),
                                 El("text_area", "AI Summary Output", r.value)>>,
                    prompts |-> <<r.prompt>>, response |-> rep, ai_summary |-> r.value]
          : rep \in Replies}
    ELSE {[screen |-> <<El("info", "Click 'Generate AI Summary' to generate AI explanation.", <<>>)>>,
           prompts |-> <<>>, response |-> NoReply, ai_summary |-> <<>>]}

\* lines 105-128
ManualBranch(text, analyze, generate, table) ==
    LET area == <<El("text_area", "Describe the road safety issue:", text)>>
    IN  IF ~analyze
        THEN {RunResult(area, {"analyze"}, <<>>, <<>>, <<>>, <<>>, NoReply, <<>>)}
        ELSE IF Strip(text) = <<>>
        THEN {RunResult(area \o <<El("warning", "Please describe the road issue first.", <<>>)>>,
                        {"analyze"}, <<>>, <<>>, <<>>, <<>>, NoReply, <<>>)}
        ELSE UNION {
               LET rows == find_matching_interventions(iss, table)
               IN  IF rows # <<>>
                   THEN {RunResult(
                            area \o <<El("subheader", "Recommended Road Safety Interventions", <<>>),
                                      El("dataframe", "", rows),
                                      El("subheader", "AI Summary and Explanation", <<>>)>>
                                 \o sec.screen,
                            {"analyze", "generate"}, <<>>, iss, rows,
                            sec.prompts, sec.response, sec.ai_summary)
                         : sec \in SummarySection(text, generate)}
                   ELSE {RunResult(
                            area \o <<El("warning", "No valid interventions found for this issue.", <<>>)>>,
                            {"analyze"}, <<>>, iss, rows, <<>>, NoReply, <<>>)}
               : iss \in ListsOf(extract_road_issues(text))}

\* lines 133-164 with the summary offered whether or not a row matched
PdfBranchAlwaysOffers(file, generate, table) ==
    IF ~file.present THEN {RunResult(<<>>, {}, <<>>, <<>>, <<>>, <<>>, NoReply, <<>>)}
    ELSE LET text == extract_text_from_pdf(file.pages)
         IN  UNION {
               LET rows == find_matching_interventions(iss, table)
               IN  {RunResult(<<El("dataframe", "", rows)>> \o sec.screen, {"generate"},
                              text, iss, rows, sec.prompts, sec.response, sec.ai_summary)
                    : sec \in SummarySection(text, generate)}
               : iss \in ListsOf(extract_road_issues(text))}

\* lines 133-164.  The upload is first written to uploads/<name> and read back
\* from there (lines 137-145): the pages read are the pages uploaded.
PdfBranch(file, generate, table) ==
    IF ~file.present THEN {RunResult(<<>>, {}, <<>>, <<>>, <<>>, <<>>, NoReply, <<>>)}
    ELSE LET text == extract_text_from_pdf(file.pages)
             top  == <<El("success", "PDF uploaded successfully!", <<>>),
                       El("text_area", "Extracted Text (Preview)", Prefix(text, PreviewLimit))>>
         IN  UNION {
               LET rows == find_matching_interventions(iss, table)
               IN  IF rows # <<>>
                   THEN {RunResult(
                            top \o <<El("subheader", "Recommended Interventions from Report", <<>>),
                                     El("dataframe", "", rows),
                                     El("subheader", "AI Summary and Explanation", <<>>)>>
                                \o sec.screen,
                            {"generate"}, text, iss, rows,
                            sec.prompts, sec.response, sec.ai_summary)
                         : sec \in SummarySection(text, generate)}
                   ELSE {RunResult(
                            top \o <<El("warning", "No valid interventions found in the report.", <<>>)>>,
                            {}, text, iss, rows, <<>>, NoReply, <<>>)}
               : iss \in ListsOf(extract_road_issues(text))}

\* the whole script, top to bottom (lines 12-164).  The choice of the client
\* model (lines 21-30) shows at most a warning and decides nothing below it.
Script(key, csv, table, opt, text, file, click) ==
    IF ~key
    THEN {RunResult(<<El("error", "Google API Key not found.", <<>>)>>,
                    {}, <<>>, <<>>, <<>>, <<>>, NoReply, <<>>)}
    ELSE LET head == <<El("title", "SafeRoad AI - Road Safety Intervention GPT", <<>>)>>
         IN  IF ~csv
             THEN {RunResult(head \o <<El("error", "'irc_interventions.csv' not found.", <<>>)>>,
                             {}, <<>>, <<>>, <<>>, <<>>, NoReply, <<>>)}
             ELSE {[r EXCEPT !.screen = head \o <<El("radio", "Select Input Type:", opt)>> \o @]
                   : r \in IF opt = "manual"
                           THEN ManualBranch(text, click = "analyze", click = "generate", table)
                           ELSE PdfBranch(file, click = "generate", table)}

(***************************************************************************)
(* The session: the widget values are the state between runs.              *)
(***************************************************************************)
MaxWords == 2       \* a text typed into the page is at most this many fragments
MaxAppPages == 2    \* pages of a PDF uploaded to the page

AppTexts == Concatenations({pothole, Pothole, school, <<" ">>, <<"x">>}, MaxWords)

\* a page longer than the excerpt the summary takes
LongPage == sign \o [i \in 1..SummaryLimit |-> "."]

AppPdfs ==
    SeqsUpTo({<<>>, Pothole \o <<" ">> \o school \o <<"\n">>, <<"x">>}, MaxAppPages)
    \cup {<<LongPage>>}

AppTables ==
    {<<>>, <<PotholeRepair, SchoolZone>>, <<PotholeRepair, Untagged, SignBoard, PotholeRepair>>}

\* the widgets below the data load are rendered
PageLive == API_KEY /\ csv_found

\* one script run with the given widget values, triggered by `click`
Run(opt, text, file, click) ==
    /\ \E r \in Script(API_KEY, csv_found, df, opt, text, file, click) :
          /\ screen' = r.screen
          /\ buttons' = r.buttons
          /\ pdf_text' = r.pdf_text
          /\ issues' = r.issues
          /\ matched_rows' = r.matched_rows
          /\ prompts' = r.prompts
          /\ response' = r.response
          /\ ai_summary' = r.ai_summary
    /\ option' = opt
    /\ user_input' = text
    /\ uploaded_pdf' = file
    /\ clicked' = click
    /\ UNCHANGED <<pc, API_KEY, csv_found, df>>

Init ==
    /\ pc = "app"
    /\ API_KEY \in BOOLEAN
    /\ csv_found \in BOOLEAN
    /\ df \in AppTables
    /\ option = "manual"
    /\ user_input = <<>>
    /\ uploaded_pdf = NoFile
    /\ clicked = "none"
    /\ \E r \in Script(API_KEY, csv_found, df, "manual", <<>>, NoFile, "none") :
          /\ screen = r.screen
          /\ buttons = r.buttons
          /\ pdf_text = r.pdf_text
          /\ issues = r.issues
          /\ matched_rows = r.matched_rows
          /\ prompts = r.prompts
          /\ response = r.response
          /\ ai_summary = r.ai_summary

\* the browser reloads the page: a new session
Reload == pc = "app" /\ Run("manual", <<>>, NoFile, "none")

SelectOption(o) ==
    /\ pc = "app" /\ PageLive
    /\ o # option
    /\ Run(o, <<>>, NoFile, "radio")

EditText(t) ==
    /\ pc = "app" /\ PageLive
    /\ option = "manual"
    /\ t # user_input
    /\ Run(option, t, uploaded_pdf, "text_area")

ClickAnalyze ==
    /\ pc = "app"
    /\ "analyze" \in buttons
    /\ Run(option, user_input, uploaded_pdf, "analyze")

ClickGenerate ==
    /\ pc = "app"
    /\ "generate" \in buttons
    /\ Run(option, user_input, uploaded_pdf, "generate")

UploadPdf(p) ==
    /\ pc = "app" /\ PageLive
    /\ option = "pdf"
    /\ Run(option, user_input, File(p), "uploader")

RemovePdf ==
    /\ pc = "app" /\ PageLive
    /\ option = "pdf"
    /\ uploaded_pdf.present
    /\ Run(option, user_input, NoFile, "uploader")

Next ==
    \/ Reload
    \/ \E o \in {"manual", "pdf"} : SelectOption(o)
    \/ \E t \in AppTexts : EditText(t)
    \/ ClickAnalyze
    \/ ClickGenerate
    \/ \E p \in AppPdfs : UploadPdf(p)
    \/ RemovePdf

Spec == Init /\ [][Next]_vars

(***************************************************************************)
(* Properties of the page.                                                 *)
(***************************************************************************)
\* the i-th thing on the screen is the widget w with this label and value
Shows(i, w, label, value) ==
    /\ screen[i].w = w
    /\ screen[i].label = label
    /\ screen[i].value = value

\* the text the last run worked on
InputText == IF option = "manual" THEN user_input ELSE pdf_text

\* C5: the external summarization call is made only in a run whose input text
\* is not blank and in which find_matching_interventions returned rows.
C5_CallOnlyAfterMatches ==
    (pc = "app" /\ prompts # <<>>) =>
        /\ Strip(InputText) # <<>>
        /\ matched_rows # <<>>

\* a run that made the external call
C5_Witness ==
    /\ pc = "app"
    /\ prompts # <<>>
    /\ matched_rows # <<>>

\* C6: when the external call raises, generate_ai_summary returns a message
\* containing the failure's description, no fault reaches the page, and the
\* page displays the message.
C6_FailureBecomesMessage ==
    (pc = "app" /\ response.kind = "raise") =>
        /\ Contains(ai_summary, response.text)
        /\ ai_summary # response.text
        /\ \A i \in 1..Len(screen) : screen[i].w # "exception"
        /\ Shows(Len(screen), "text_area", "AI Summary Output", ai_summary)

\* a run in which the external call raised
C6_Witness ==
    /\ pc = "app"
    /\ response.kind = "raise"
    /\ prompts # <<>>

\* C7: the run triggered by a click on 'Generate AI Summary' reaches
\* generate_ai_summary for the input whose interventions were shown and
\* displays its result, in both input modes.
C7_GenerateClickShowsSummary ==
    (pc = "app" /\ clicked = "generate") =>
        /\ prompts # <<>>
        /\ \E i \in 1..Len(screen) :
              Shows(i, "text_area", "AI Summary Output", ai_summary)

=============================================================================
